---- MODULE Spec2Model ----
(***************************************************************************)
(* Model of the arXiv harvester (3_code/arxiv_batch_download.py) and of    *)
(* the gap reconciler (3_code/recover_missing_data.py).                    *)
(*                                                                         *)
(* Time is counted in ticks, TicksPerDay ticks to a day, so that a start   *)
(* time that is not midnight (--initial-end absent: now()) is covered.     *)
(* A CSV file is the pair (exists, rows); a row is represented by its      *)
(* first cell: the header row of both files has first cell "id", a data    *)
(* row has the paper id as first cell.  No other cell of the model's rows  *)
(* carries the text "id".                                                  *)
(***************************************************************************)
EXTENDS Integers, Sequences, FiniteSets, TLC

(* ---------------- bounds of the model ---------------- *)
TicksPerDay == 2
MaxDay == 22
MaxWindowDays == 7
MaxFailRows == 4
MaxRuns == 2
MaxPasses == 2

(* ---------------- CFG (arxiv_batch_download.py:20-31), scaled ---------- *)
\* batch_size is 100 and target_total 120000 in the source; the model keeps
\* their roles with small values.
batch_size == 2
target_total == 2
max_retries == 3
backoff_unit == 5

Header == "id"

(* ---------------- the source ---------------- *)
\* The papers of the source, newest first, each with its submission day.
Catalog == << [id |-> "p1", day |-> 1], [id |-> "p2", day |-> 1],
             [id |-> "p3", day |-> 0] >>

Papers == {Catalog[i].id : i \in 1..Len(Catalog)}

VARIABLES
  meta_file,        \* the ledger metadata.csv: [exists, rows]
  failed_file,      \* failed_papers.csv: [exists, rows]
  pdf_dir,          \* ids of the artifacts <id>.pdf on disk
  pc,               \* position of the running script
  downloaded_ids,   \* main: downloaded_ids
  total_downloaded, \* main / download_window: total_downloaded
  global_start,     \* main: global_start
  window_days,      \* main: window_days
  skip_retry,       \* args.skip_retry
  current_start,    \* main: current_start
  current_end,      \* main: current_end
  window_count,     \* main: window_count
  next_window,      \* result of the last calc_next_window call
  meta_batch,       \* download_window / retry_failed: meta_batch
  batch_count,      \* download_window: batch_count
  paper,            \* loop variable: id of the record in hand
  success,          \* result of the last download_single call
  retry,            \* download_window: number of retry attempts begun
  backoff,          \* seconds of the last time.sleep of the retry loop
  drained,          \* the last re-issued query of the retry loop ran to its end
  failed_ids,       \* retry_failed: failed_ids
  rf_i,             \* retry_failed: position in failed_ids
  retried_success,  \* retry_failed: retried_success
  missing_ids,      \* reconciler: missing_ids
  missing_meta,     \* reconciler: missing_meta
  queries,          \* source queries issued since the run started
  attempts,         \* download_pdf calls since the run started
  run_start,        \* files and total as they were when the run started
  windows,          \* the windows produced so far in this run
  rc_todo,          \* reconciler: ids of missing_ids not yet visited
  kbd,              \* a KeyboardInterrupt was delivered to this run
  disk_faults,      \* environment: writes to the CSV files can fail
  runs,             \* harvester runs started so far
  passes            \* reconciler passes started so far

vars == << meta_file, failed_file, pdf_dir, pc, downloaded_ids,
           total_downloaded, global_start, window_days, skip_retry,
           current_start, current_end, window_count, next_window,
           meta_batch, batch_count, paper, success, retry, backoff,
           drained, failed_ids, rf_i, retried_success, missing_ids, missing_meta,
           queries, attempts, run_start, windows, rc_todo, kbd,
           disk_faults, runs, passes >>

argsV == << global_start, window_days, skip_retry >>
planV == << current_start, current_end, next_window >>
retryV == << retry, backoff, drained >>
rfV == << failed_ids, rf_i, retried_success >>
rcV == << missing_ids, missing_meta, rc_todo >>
envV == << run_start, kbd, disk_faults, runs, passes >>

(* ---------------- helpers ---------------- *)
Max(a, b) == IF a >= b THEN a ELSE b

Day(n) == n * TicksPerDay

RECURSIVE SeqToSet(_)
SeqToSet(s) == IF s = << >> THEN {} ELSE {Head(s)} \cup SeqToSet(Tail(s))

NoFile == [exists |-> FALSE, rows |-> << >>]

\* strftime('%Y%m%d') of lines 116-117, as a day number
DayOf(t) == t \div TicksPerDay

\* The records the query of line 118 returns, in the order of lines 129-130:
\* the papers submitted from the day of window_start to the day of window_end.
RECURSIVE Matching(_, _, _)
Matching(cat, first_day, last_day) ==
  IF cat = << >> THEN << >>
  ELSE LET rest == Matching(Tail(cat), first_day, last_day)
       IN IF first_day <= Head(cat).day /\ Head(cat).day <= last_day
            THEN << Head(cat).id >> \o rest
            ELSE rest

QueryResults(window_start, window_end) ==
  Matching(Catalog, DayOf(window_start), DayOf(window_end))

(* ---------------- csv.DictReader over a file ---------------- *)
\* The first row supplies the field names; row.get('id') of a later row is
\* its first cell when the first field name is 'id', and None otherwise.
DictReaderIds(rows) ==
  IF rows = << >> THEN << >>
  ELSE IF Head(rows) = Header THEN Tail(rows)
  ELSE << >>

\* load_ids(file_path, is_set=False)
load_ids_list(file) ==
  IF file.exists THEN DictReaderIds(file.rows) ELSE << >>

\* load_ids(file_path, is_set=True)
load_ids(file) == SeqToSet(load_ids_list(file))

(* ---------------- window planner ---------------- *)
NoWindow == [none |-> TRUE]

Window(s, e) == [start |-> s, end |-> e]

\* the clamp of line 110 left out
calc_next_window_unclamped(cur_start, cur_end, glob_start, win_days) ==
  LET next_end == cur_start - Day(1)
      next_start == next_end - Day(win_days)
  IN IF next_start < glob_start /\ glob_start > next_end THEN NoWindow
     ELSE Window(next_start, next_end)

\* the walk given up as soon as the start would precede the floor
calc_next_window_check_first(cur_start, cur_end, glob_start, win_days) ==
  LET next_end == cur_start - Day(1)
      next_start == next_end - Day(win_days)
  IN IF next_start < glob_start THEN NoWindow
     ELSE Window(next_start, next_end)

\* the day of line 107 not subtracted
calc_next_window_adjacent(cur_start, cur_end, glob_start, win_days) ==
  LET next_end == cur_start
      next_start == next_end - Day(win_days)
  IN IF next_start < glob_start
       THEN IF glob_start > next_end THEN NoWindow
            ELSE Window(glob_start, next_end)
       ELSE Window(next_start, next_end)

calc_next_window(cur_start, cur_end, glob_start, win_days) ==
  LET next_end == cur_start - Day(1)
      next_start == next_end - Day(win_days)
  IN IF next_start < glob_start
       THEN IF glob_start > next_end THEN NoWindow
            ELSE Window(glob_start, next_end)
       ELSE Window(next_start, next_end)

\* main, lines 252-253
InitialWindow(initial_end, glob_start, win_days) ==
  Window(Max(initial_end - Day(win_days), glob_start), initial_end)

(* ---------------- save_csv ---------------- *)
\* Outcome of one save_csv call on the disk: "ok"; "open_failed" (open
\* raises, nothing is created); "write_failed" (open succeeded, so the file
\* exists afterwards, and the write raised before any row reached the disk).
WriteOutcomes == IF disk_faults THEN {"ok", "open_failed", "write_failed"}
                 ELSE {"ok"}

\* save_csv, line 66: the header is written when the file did not exist
HeaderRows(file_exists) == IF ~file_exists THEN << Header >> ELSE << >>

\* the file opened with 'w' in place of 'a'
save_csv_truncating(data, file, outcome) ==
  IF data = << >> THEN file
  ELSE CASE outcome = "ok" ->
              [exists |-> TRUE, rows |-> HeaderRows(FALSE) \o data]
         [] outcome = "write_failed" -> [exists |-> TRUE, rows |-> << >>]
         [] OTHER -> file

save_csv(data, file, outcome) ==
  IF data = << >> THEN file
  ELSE LET file_exists == file.exists
       IN CASE outcome = "ok" ->
                 [exists |-> TRUE,
                  rows |-> file.rows \o HeaderRows(file_exists) \o data]
            [] outcome = "write_failed" -> [file EXCEPT !.exists = TRUE]
            [] OTHER -> file

\* the file opened with 'w': what it held is lost
reconciler_append_rewriting(data, file) ==
  [exists |-> TRUE, rows |-> data]

\* recover_missing_data.py, lines 68-76 and 80-85: open(..., 'a') creates the
\* file, and only then is exists() asked.
reconciler_append(data, file) ==
  LET opened == [file EXCEPT !.exists = TRUE]
  IN [opened EXCEPT !.rows = @ \o HeaderRows(opened.exists) \o data]

Rows(file) == Len(file.rows)

(* ---------------- positions ---------------- *)
Idle == {"idle", "done", "interrupted", "rc_done"}

Running == {"loop", "paginate", "batch", "retry_sleep", "retry_drain",
            "plan", "after_windows", "rf_loop"}

\* values the run-local variables take outside the function that owns them
NoPaper == "none"

(* ---------------- download_single ---------------- *)
\* the check of line 76 left out
AlreadyDownloaded_unchecked(paper_id, ids) == FALSE

\* line 76
AlreadyDownloaded(paper_id, ids) == paper_id \in ids

(* ---------------- main ---------------- *)
GlobalStarts == {Day(0)}
InitialEnds == {Day(1)}
WindowDays == {0, 1}

\* > in place of >=
TargetReached_strict(total) == total > target_total

\* line 247; lines 138, 256 and 269 ask the same of total_downloaded
TargetReached(total) == total >= target_total

\* main, lines 243-254
StartRun(glob_start, initial_end, win_days, skip) ==
  /\ pc \in Idle
  /\ runs < MaxRuns
  /\ runs' = runs + 1
  /\ LET ids == load_ids(meta_file)
         total == Cardinality(ids)
         first == InitialWindow(initial_end, glob_start, win_days)
     IN /\ downloaded_ids' = ids
        /\ total_downloaded' = total
        /\ run_start' = [meta |-> meta_file, failed |-> failed_file,
                         total |-> total]
        /\ global_start' = glob_start
        /\ window_days' = win_days
        /\ skip_retry' = skip
        /\ current_start' = first.start
        /\ current_end' = first.end
        /\ pc' = IF TargetReached(total) THEN "done" ELSE "loop"
  /\ window_count' = 0
  /\ next_window' = NoWindow
  /\ meta_batch' = << >>
  /\ batch_count' = 0
  /\ paper' = NoPaper
  /\ success' = FALSE
  /\ retry' = 0
  /\ backoff' = 0
  /\ drained' = FALSE
  /\ failed_ids' = << >>
  /\ rf_i' = 0
  /\ retried_success' = 0
  /\ missing_ids' = {}
  /\ missing_meta' = << >>
  /\ rc_todo' = {}
  /\ queries' = 0
  /\ attempts' = 0
  /\ windows' = << >>
  /\ kbd' = FALSE
  /\ UNCHANGED << meta_file, failed_file, pdf_dir, disk_faults, passes >>

\* the run-local variables of main as they are before main has run
NoRun ==
  /\ downloaded_ids' = {}
  /\ total_downloaded' = 0
  /\ global_start' = 0
  /\ window_days' = 0
  /\ skip_retry' = FALSE
  /\ current_start' = 0
  /\ current_end' = 0
  /\ window_count' = 0
  /\ next_window' = NoWindow
  /\ meta_batch' = << >>
  /\ batch_count' = 0
  /\ paper' = NoPaper
  /\ success' = FALSE
  /\ retry' = 0
  /\ backoff' = 0
  /\ drained' = FALSE
  /\ failed_ids' = << >>
  /\ rf_i' = 0
  /\ retried_success' = 0
  /\ queries' = 0
  /\ attempts' = 0
  /\ windows' = << >>
  /\ kbd' = FALSE

\* main, lines 256-258, and download_window, lines 116-134
LoopTest ==
  /\ pc = "loop"
  /\ IF current_start <= current_end /\ ~TargetReached(total_downloaded)
       THEN /\ window_count' = window_count + 1
            /\ windows' = Append(windows, Window(current_start, current_end))
            /\ queries' = queries + 1
            /\ pc' = "paginate"
       ELSE /\ pc' = "after_windows"
            /\ UNCHANGED << window_count, windows, queries >>
  /\ meta_batch' = << >>
  /\ batch_count' = 0
  /\ UNCHANGED << meta_file, failed_file, pdf_dir, downloaded_ids,
                  total_downloaded, paper, success, attempts,
                  argsV, planV, retryV, rfV, rcV, envV >>

(* ---------------- download_window: pagination ---------------- *)
\* Each step of the for loop of line 137 yields the next record of the
\* window's result sequence, ends after its last record, or raises.
Results == QueryResults(current_start, current_end)

HasNext == pc = "paginate" /\ batch_count < Len(Results)

NextPaper == Results[batch_count + 1]

\* line 178: download_window returns, its local variables are gone
Returned ==
  /\ meta_batch' = << >>
  /\ batch_count' = 0
  /\ paper' = NoPaper
  /\ success' = FALSE
  /\ retry' = 0
  /\ backoff' = 0
  /\ drained' = FALSE
  /\ pc' = "plan"

\* lines 137-140 and 160-165: the target is met, break, save the remainder
TargetBreak(outcome) ==
  /\ HasNext
  /\ TargetReached(total_downloaded)
  /\ meta_file' = save_csv(meta_batch, meta_file, outcome)
  /\ Returned
  /\ UNCHANGED << failed_file, pdf_dir, downloaded_ids, total_downloaded,
                  window_count, windows, queries, attempts,
                  argsV, planV, rfV, rcV, envV >>

\* lines 142-143 with download_single, lines 75-77: the id is known
SkipRecord ==
  /\ HasNext
  /\ ~TargetReached(total_downloaded)
  /\ AlreadyDownloaded(NextPaper, downloaded_ids)
  /\ paper' = NextPaper
  /\ success' = FALSE
  /\ pc' = "batch"
  /\ UNCHANGED << meta_file, failed_file, pdf_dir, downloaded_ids,
                  total_downloaded, window_count, windows, meta_batch,
                  batch_count, queries, attempts,
                  argsV, planV, retryV, rfV, rcV, envV >>

\* lines 142-146 with download_single, lines 91-94: download_pdf succeeds
DownloadOk ==
  /\ HasNext
  /\ ~TargetReached(total_downloaded)
  /\ ~AlreadyDownloaded(NextPaper, downloaded_ids)
  /\ paper' = NextPaper
  /\ attempts' = attempts + 1
  /\ pdf_dir' = pdf_dir \cup {NextPaper}
  /\ success' = TRUE
  /\ meta_batch' = Append(meta_batch, NextPaper)
  /\ total_downloaded' = total_downloaded + 1
  /\ downloaded_ids' = downloaded_ids \cup {NextPaper}
  /\ pc' = "batch"
  /\ UNCHANGED << meta_file, failed_file, window_count, windows,
                  batch_count, queries, argsV, planV, retryV, rfV, rcV, envV >>

\* the test of line 143 dropped: the record of a failed download is batched
DownloadFail_recorded(outcome) ==
  /\ HasNext
  /\ ~TargetReached(total_downloaded)
  /\ ~AlreadyDownloaded(NextPaper, downloaded_ids)
  /\ Rows(failed_file) < MaxFailRows
  /\ paper' = NextPaper
  /\ attempts' = attempts + 1
  /\ failed_file' = save_csv(<< NextPaper >>, failed_file, outcome)
  /\ success' = FALSE
  /\ meta_batch' = Append(meta_batch, NextPaper)
  /\ pc' = "batch"
  /\ UNCHANGED << meta_file, pdf_dir, downloaded_ids, total_downloaded,
                  window_count, windows, batch_count, queries,
                  argsV, planV, retryV, rfV, rcV, envV >>

\* lines 142-143 with download_single, lines 95-100: download_pdf raises
DownloadFail(outcome) ==
  /\ HasNext
  /\ ~TargetReached(total_downloaded)
  /\ ~AlreadyDownloaded(NextPaper, downloaded_ids)
  /\ Rows(failed_file) < MaxFailRows
  /\ paper' = NextPaper
  /\ attempts' = attempts + 1
  /\ failed_file' = save_csv(<< NextPaper >>, failed_file, outcome)
  /\ success' = FALSE
  /\ pc' = "batch"
  /\ UNCHANGED << meta_file, pdf_dir, downloaded_ids, total_downloaded,
                  window_count, windows, meta_batch, batch_count, queries,
                  argsV, planV, retryV, rfV, rcV, envV >>

\* line 150
BatchFull(count) == count % batch_size = 0

\* the except of lines 70-71 left out: a failed write escapes save_csv and
\* is taken by the handler of line 166
BatchStep_raising(outcome) ==
  /\ pc = "batch"
  /\ batch_count' = batch_count + 1
  /\ IF BatchFull(batch_count') /\ meta_batch # << >> /\ outcome # "ok"
       THEN /\ meta_file' = save_csv(meta_batch, meta_file, outcome)
            /\ retry' = 0
            /\ backoff' = 0
            /\ drained' = FALSE
            /\ pc' = "retry_sleep"
            /\ UNCHANGED meta_batch
       ELSE /\ IF BatchFull(batch_count')
                 THEN /\ meta_file' = save_csv(meta_batch, meta_file, outcome)
                      /\ meta_batch' = << >>
                 ELSE UNCHANGED << meta_file, meta_batch >>
            /\ pc' = "paginate"
            /\ UNCHANGED retryV
  /\ UNCHANGED << failed_file, pdf_dir, downloaded_ids, total_downloaded,
                  window_count, windows, paper, success, queries, attempts,
                  argsV, planV, rfV, rcV, envV >>

\* lines 148-158
BatchStep(outcome) ==
  /\ pc = "batch"
  /\ batch_count' = batch_count + 1
  /\ IF BatchFull(batch_count')
       THEN /\ meta_file' = save_csv(meta_batch, meta_file, outcome)
            /\ meta_batch' = << >>
       ELSE UNCHANGED << meta_file, meta_batch >>
  /\ pc' = "paginate"
  /\ UNCHANGED << failed_file, pdf_dir, downloaded_ids, total_downloaded,
                  window_count, windows, paper, success, queries, attempts,
                  argsV, planV, retryV, rfV, rcV, envV >>

\* lines 137 and 160-165: the result sequence ends, save the remainder
Exhausted(outcome) ==
  /\ pc = "paginate"
  /\ batch_count = Len(Results)
  /\ meta_file' = save_csv(meta_batch, meta_file, outcome)
  /\ Returned
  /\ UNCHANGED << failed_file, pdf_dir, downloaded_ids, total_downloaded,
                  window_count, windows, queries, attempts,
                  argsV, planV, rfV, rcV, envV >>

\* lines 137 and 166-167: fetching the next page raises; the handler does
\* not save meta_batch
WindowError ==
  /\ pc = "paginate"
  /\ retry' = 0
  /\ backoff' = 0
  /\ drained' = FALSE
  /\ pc' = "retry_sleep"
  /\ UNCHANGED << meta_file, failed_file, pdf_dir, downloaded_ids,
                  total_downloaded, window_count, windows, meta_batch,
                  batch_count, paper, success, queries, attempts,
                  argsV, planV, rfV, rcV, envV >>

(* ---------------- download_window: the retry loop ---------------- *)
\* one attempt too many
RetryLeft_inclusive(n) == n <= max_retries

\* line 169: range(CFG["max_retries"])
RetryLeft(n) == n < max_retries

\* line 171: time.sleep(5 * (retry + 1)), retry counted from 0
Backoff(n) == backoff_unit * (n + 1)

\* lines 169-171, and line 178 when the range is used up
RetrySleep ==
  /\ pc = "retry_sleep"
  /\ IF RetryLeft(retry)
       THEN /\ backoff' = Backoff(retry)
            /\ retry' = retry + 1
            /\ drained' = FALSE
            /\ pc' = "retry_drain"
            /\ UNCHANGED << meta_batch, batch_count, paper, success >>
       ELSE Returned
  /\ UNCHANGED << meta_file, failed_file, pdf_dir, downloaded_ids,
                  total_downloaded, window_count, windows, queries, attempts,
                  argsV, planV, rfV, rcV, envV >>

\* the records of the re-issued query counted and written without the check
\* of line 76
RetryDrain_recounting(ok) ==
  /\ pc = "retry_drain"
  /\ queries' = queries + 1
  /\ drained' = ok
  /\ total_downloaded' = total_downloaded + (IF ok THEN Len(Results) ELSE 0)
  /\ meta_file' = IF ok THEN save_csv(Results, meta_file, "ok") ELSE meta_file
  /\ downloaded_ids' = IF ok THEN downloaded_ids \cup SeqToSet(Results)
                        ELSE downloaded_ids
  /\ pdf_dir' = IF ok THEN pdf_dir \cup SeqToSet(Results) ELSE pdf_dir
  /\ pc' = "retry_sleep"
  /\ UNCHANGED << failed_file, window_count, windows, meta_batch,
                  batch_count, paper, success, attempts,
                  retry, backoff, argsV, planV, rfV, rcV, envV >>

\* lines 172-176: the query is issued again and its records are dropped;
\* whether the drain runs to its end (ok) or raises, the loop goes on to the
\* next attempt
RetryDrain(ok) ==
  /\ pc = "retry_drain"
  /\ queries' = queries + 1
  /\ drained' = ok
  /\ pc' = "retry_sleep"
  /\ UNCHANGED << meta_file, failed_file, pdf_dir, downloaded_ids,
                  total_downloaded, window_count, windows, meta_batch,
                  batch_count, paper, success, attempts, retry, backoff,
                  argsV, planV, rfV, rcV, envV >>

\* main, lines 260-266
Plan ==
  /\ pc = "plan"
  /\ LET nxt == calc_next_window(current_start, current_end, global_start,
                                 window_days)
     IN /\ next_window' = nxt
        /\ IF nxt = NoWindow
             THEN /\ pc' = "after_windows"
                  /\ UNCHANGED << current_start, current_end >>
             ELSE /\ current_start' = nxt.start
                  /\ current_end' = nxt.end
                  /\ pc' = "loop"
  /\ UNCHANGED << meta_file, failed_file, pdf_dir, downloaded_ids,
                  total_downloaded, window_count, windows, meta_batch,
                  batch_count, paper, success, queries, attempts,
                  argsV, retryV, rfV, rcV, envV >>

(* ---------------- retry_failed ---------------- *)
\* main, lines 268-273, and retry_failed, lines 185-193
AfterWindows ==
  /\ pc = "after_windows"
  /\ IF ~skip_retry /\ ~TargetReached(total_downloaded)
       THEN LET loaded == load_ids_list(failed_file)
            IN /\ failed_ids' = loaded
               /\ rf_i' = 1
               /\ pc' = IF loaded = << >> THEN "done" ELSE "rf_loop"
       ELSE /\ pc' = "done"
            /\ UNCHANGED << failed_ids, rf_i >>
  /\ retried_success' = 0
  /\ meta_batch' = << >>
  /\ UNCHANGED << meta_file, failed_file, pdf_dir, downloaded_ids,
                  total_downloaded, window_count, windows, batch_count,
                  paper, success, queries, attempts,
                  argsV, planV, retryV, rcV, envV >>

RfPending == pc = "rf_loop" /\ rf_i <= Len(failed_ids)

\* lines 195-197
RfSkip ==
  /\ RfPending
  /\ failed_ids[rf_i] \in downloaded_ids
  /\ paper' = failed_ids[rf_i]
  /\ rf_i' = rf_i + 1
  /\ UNCHANGED << meta_file, failed_file, pdf_dir, pc, downloaded_ids,
                  total_downloaded, window_count, windows, meta_batch,
                  batch_count, success, queries, attempts, failed_ids,
                  retried_success, argsV, planV, retryV, rcV, envV >>

\* lines 198-201 and 207-209: the lookup raises, or returns no record
RfLookupFail ==
  /\ RfPending
  /\ failed_ids[rf_i] \notin downloaded_ids
  /\ paper' = failed_ids[rf_i]
  /\ queries' = queries + 1
  /\ rf_i' = rf_i + 1
  /\ UNCHANGED << meta_file, failed_file, pdf_dir, pc, downloaded_ids,
                  total_downloaded, window_count, windows, meta_batch,
                  batch_count, success, attempts, failed_ids,
                  retried_success, argsV, planV, retryV, rcV, envV >>

\* total_downloaded raised in the loop as in line 145, and the return value
\* added by main as well
RfDownloadOk_counting ==
  /\ RfPending
  /\ failed_ids[rf_i] \notin downloaded_ids
  /\ ~AlreadyDownloaded(failed_ids[rf_i], downloaded_ids)
  /\ paper' = failed_ids[rf_i]
  /\ queries' = queries + 1
  /\ attempts' = attempts + 1
  /\ pdf_dir' = pdf_dir \cup {failed_ids[rf_i]}
  /\ success' = TRUE
  /\ meta_batch' = Append(meta_batch, failed_ids[rf_i])
  /\ retried_success' = retried_success + 1
  /\ total_downloaded' = total_downloaded + 1
  /\ downloaded_ids' = downloaded_ids \cup {failed_ids[rf_i]}
  /\ rf_i' = rf_i + 1
  /\ UNCHANGED << meta_file, failed_file, pc, window_count, windows,
                  batch_count, failed_ids, argsV, planV, retryV, rcV, envV >>

\* lines 200-207 with download_single, lines 91-94
RfDownloadOk ==
  /\ RfPending
  /\ failed_ids[rf_i] \notin downloaded_ids
  /\ ~AlreadyDownloaded(failed_ids[rf_i], downloaded_ids)
  /\ paper' = failed_ids[rf_i]
  /\ queries' = queries + 1
  /\ attempts' = attempts + 1
  /\ pdf_dir' = pdf_dir \cup {failed_ids[rf_i]}
  /\ success' = TRUE
  /\ meta_batch' = Append(meta_batch, failed_ids[rf_i])
  /\ retried_success' = retried_success + 1
  /\ downloaded_ids' = downloaded_ids \cup {failed_ids[rf_i]}
  /\ rf_i' = rf_i + 1
  /\ UNCHANGED << meta_file, failed_file, pc, total_downloaded,
                  window_count, windows, batch_count, failed_ids,
                  argsV, planV, retryV, rcV, envV >>

\* lines 200-202 and 207 with download_single, lines 95-100
RfDownloadFail(outcome) ==
  /\ RfPending
  /\ failed_ids[rf_i] \notin downloaded_ids
  /\ ~AlreadyDownloaded(failed_ids[rf_i], downloaded_ids)
  /\ Rows(failed_file) < MaxFailRows
  /\ paper' = failed_ids[rf_i]
  /\ queries' = queries + 1
  /\ attempts' = attempts + 1
  /\ failed_file' = save_csv(<< failed_ids[rf_i] >>, failed_file, outcome)
  /\ success' = FALSE
  /\ rf_i' = rf_i + 1
  /\ UNCHANGED << meta_file, pdf_dir, pc, downloaded_ids, total_downloaded,
                  window_count, windows, meta_batch, batch_count,
                  failed_ids, retried_success,
                  argsV, planV, retryV, rcV, envV >>

\* retry_failed, lines 211-218, and main, lines 270-273
RfEnd(outcome) ==
  /\ pc = "rf_loop"
  /\ rf_i > Len(failed_ids)
  /\ meta_file' = save_csv(meta_batch, meta_file, outcome)
  /\ meta_batch' = << >>
  /\ paper' = NoPaper
  /\ success' = FALSE
  /\ total_downloaded' = total_downloaded + retried_success
  /\ pc' = "done"
  /\ UNCHANGED << failed_file, pdf_dir, downloaded_ids, window_count,
                  windows, batch_count, queries, attempts,
                  argsV, planV, retryV, rfV, rcV, envV >>

(* ---------------- KeyboardInterrupt ---------------- *)
\* lines 276-280.  Inside the try of lines 172-176 the bare except takes the
\* interrupt and the retry loop goes on; anywhere else it ends the run, and
\* the local variables of main and of the functions it was in are gone.
Interrupt ==
  /\ pc \in Running
  /\ ~kbd
  /\ kbd' = TRUE
  /\ IF pc = "retry_drain"
       THEN /\ pc' = "retry_sleep"
            /\ drained' = FALSE
            /\ UNCHANGED << meta_batch, batch_count, paper, success, retry,
                            backoff, rfV, planV, window_count, windows >>
       ELSE /\ pc' = "interrupted"
            /\ meta_batch' = << >>
            /\ batch_count' = 0
            /\ paper' = NoPaper
            /\ success' = FALSE
            /\ retry' = 0
            /\ backoff' = 0
            /\ drained' = FALSE
            /\ failed_ids' = << >>
            /\ rf_i' = 0
            /\ retried_success' = 0
            /\ UNCHANGED << planV, window_count, windows >>
  /\ UNCHANGED << meta_file, failed_file, pdf_dir, downloaded_ids,
                  total_downloaded, queries, attempts, run_start,
                  disk_faults, runs, passes, argsV, rcV >>

(* ---------------- recover_missing_data.py ---------------- *)
\* lines 13-36 and 87-88
RecStart ==
  /\ pc \in Idle
  /\ passes < MaxPasses
  /\ passes' = passes + 1
  /\ LET missing == pdf_dir \ load_ids(meta_file)
     IN /\ missing_ids' = missing
        /\ rc_todo' = missing
        /\ pc' = IF missing = {} THEN "rc_done" ELSE "rc_loop"
  /\ missing_meta' = << >>
  /\ NoRun
  /\ run_start' = [meta |-> meta_file, failed |-> failed_file, total |-> 0]
  /\ UNCHANGED << meta_file, failed_file, pdf_dir, disk_faults, runs >>

\* lines 47-64: the lookup of one missing id succeeds
RecLookupOk(paper_id) ==
  /\ pc = "rc_loop"
  /\ paper_id \in rc_todo
  /\ missing_meta' = Append(missing_meta, paper_id)
  /\ rc_todo' = rc_todo \ {paper_id}
  /\ UNCHANGED << meta_file, failed_file, pdf_dir, pc, downloaded_ids,
                  total_downloaded, window_count, windows, meta_batch,
                  batch_count, paper, success, queries, attempts,
                  missing_ids, argsV, planV, retryV, rfV, envV >>

\* lines 65-76: the lookup raises
RecLookupFail(paper_id) ==
  /\ pc = "rc_loop"
  /\ paper_id \in rc_todo
  /\ Rows(failed_file) < MaxFailRows
  /\ failed_file' = reconciler_append(<< paper_id >>, failed_file)
  /\ rc_todo' = rc_todo \ {paper_id}
  /\ UNCHANGED << meta_file, pdf_dir, pc, downloaded_ids,
                  total_downloaded, window_count, windows, meta_batch,
                  batch_count, paper, success, queries, attempts,
                  missing_ids, missing_meta,
                  argsV, planV, retryV, rfV, envV >>

\* lines 78-86
RecFlush ==
  /\ pc = "rc_loop"
  /\ rc_todo = {}
  /\ meta_file' = IF missing_meta # << >>
                    THEN reconciler_append(missing_meta, meta_file)
                    ELSE meta_file
  /\ pc' = "rc_done"
  /\ UNCHANGED << failed_file, pdf_dir, downloaded_ids,
                  total_downloaded, window_count, windows, meta_batch,
                  batch_count, paper, success, queries, attempts,
                  argsV, planV, retryV, rfV, rcV, envV >>

(* ---------------- the system ---------------- *)
InitRun ==
  /\ meta_file = NoFile
  /\ failed_file = NoFile
  /\ pdf_dir = {}
  /\ pc = "idle"
  /\ downloaded_ids = {}
  /\ total_downloaded = 0
  /\ global_start = 0
  /\ window_days = 0
  /\ skip_retry = FALSE
  /\ current_start = 0
  /\ current_end = 0
  /\ window_count = 0
  /\ next_window = NoWindow
  /\ meta_batch = << >>
  /\ batch_count = 0
  /\ paper = NoPaper
  /\ success = FALSE
  /\ retry = 0
  /\ backoff = 0
  /\ drained = FALSE
  /\ failed_ids = << >>
  /\ rf_i = 0
  /\ retried_success = 0
  /\ missing_ids = {}
  /\ missing_meta = << >>
  /\ rc_todo = {}
  /\ queries = 0
  /\ attempts = 0
  /\ run_start = [meta |-> NoFile, failed |-> NoFile, total |-> 0]
  /\ windows = << >>
  /\ kbd = FALSE
  /\ runs = 0
  /\ passes = 0

Init == InitRun /\ disk_faults = FALSE

Harvester ==
  \/ \E g \in GlobalStarts, e \in InitialEnds, w \in WindowDays,
        s \in BOOLEAN : StartRun(g, e, w, s)
  \/ LoopTest
  \/ \E o \in WriteOutcomes : TargetBreak(o)
  \/ SkipRecord
  \/ DownloadOk
  \/ \E o \in WriteOutcomes : DownloadFail(o)
  \/ \E o \in WriteOutcomes : BatchStep(o)
  \/ \E o \in WriteOutcomes : Exhausted(o)
  \/ WindowError
  \/ RetrySleep
  \/ \E ok \in BOOLEAN : RetryDrain(ok)
  \/ Plan
  \/ AfterWindows
  \/ RfSkip
  \/ RfLookupFail
  \/ RfDownloadOk
  \/ \E o \in WriteOutcomes : RfDownloadFail(o)
  \/ \E o \in WriteOutcomes : RfEnd(o)
  \/ Interrupt

Reconciler ==
  \/ RecStart
  \/ \E p \in Papers : RecLookupOk(p)
  \/ \E p \in Papers : RecLookupFail(p)
  \/ RecFlush

Next == Harvester \/ Reconciler

Spec == Init /\ [][Next]_vars

(* ---------------- runs without a window-level failure ---------------- *)
\* The two scripts when no exception escapes the pagination of line 137, so
\* that the handler of lines 166-176 is never entered.
CleanHarvester ==
  \/ \E g \in GlobalStarts, e \in InitialEnds, w \in WindowDays,
        s \in BOOLEAN : StartRun(g, e, w, s)
  \/ LoopTest
  \/ \E o \in WriteOutcomes : TargetBreak(o)
  \/ SkipRecord
  \/ DownloadOk
  \/ \E o \in WriteOutcomes : DownloadFail(o)
  \/ \E o \in WriteOutcomes : BatchStep(o)
  \/ \E o \in WriteOutcomes : Exhausted(o)
  \/ Plan
  \/ AfterWindows
  \/ RfSkip
  \/ RfLookupFail
  \/ RfDownloadOk
  \/ \E o \in WriteOutcomes : RfDownloadFail(o)
  \/ \E o \in WriteOutcomes : RfEnd(o)
  \/ Interrupt

NextClean == CleanHarvester \/ Reconciler

SpecClean == Init /\ [][NextClean]_vars

(* ---------------- the harvester on a failing disk ---------------- *)
\* Harvester runs in which any save_csv call can fail at open or at write
\* (lines 63-71).  The reconciler is left out: its appends are not guarded.
InitFaults == InitRun /\ disk_faults = TRUE

SpecFaults == InitFaults /\ [][Harvester]_vars

(* ---------------- the planner on its own ---------------- *)
\* main, lines 252-253 and 260-266, for every global start, initial end and
\* window size of the bounds, without the downloads in between.
PlanStep ==
  /\ pc = "plan"
  /\ LET nxt == calc_next_window(current_start, current_end, global_start,
                                 window_days)
     IN /\ next_window' = nxt
        /\ IF nxt = NoWindow
             THEN /\ pc' = "after_windows"
                  /\ UNCHANGED << current_start, current_end, windows >>
             ELSE /\ current_start' = nxt.start
                  /\ current_end' = nxt.end
                  /\ windows' = Append(windows, nxt)
                  /\ pc' = "plan"
  /\ UNCHANGED << meta_file, failed_file, pdf_dir, downloaded_ids,
                  total_downloaded, window_count, meta_batch,
                  batch_count, paper, success, queries, attempts,
                  argsV, retryV, rfV, rcV, envV >>

InitPlan ==
  /\ meta_file = NoFile
  /\ failed_file = NoFile
  /\ pdf_dir = {}
  /\ pc = "plan"
  /\ downloaded_ids = {}
  /\ total_downloaded = 0
  /\ global_start \in {Day(d) : d \in 0..MaxDay}
  /\ window_days \in 0..MaxWindowDays
  /\ skip_retry = FALSE
  /\ \E initial_end \in 0..Day(MaxDay) :
       LET first == InitialWindow(initial_end, global_start, window_days)
       IN /\ current_start = first.start
          /\ current_end = first.end
          /\ windows = << first >>
  /\ window_count = 0
  /\ next_window = NoWindow
  /\ meta_batch = << >>
  /\ batch_count = 0
  /\ paper = NoPaper
  /\ success = FALSE
  /\ retry = 0
  /\ backoff = 0
  /\ drained = FALSE
  /\ failed_ids = << >>
  /\ rf_i = 0
  /\ retried_success = 0
  /\ missing_ids = {}
  /\ missing_meta = << >>
  /\ rc_todo = {}
  /\ queries = 0
  /\ attempts = 0
  /\ run_start = [meta |-> NoFile, failed |-> NoFile, total |-> 0]
  /\ kbd = FALSE
  /\ runs = 0
  /\ passes = 0
  /\ disk_faults = FALSE

\* the loop of main runs on until calc_next_window returns no window
SpecPlan == InitPlan /\ [][PlanStep]_vars /\ WF_vars(PlanStep)

(* ======================= the claims ======================= *)

Jun(d) == Day(d)

\* C2: every window the planner produces starts at or after global_start
\* and ends strictly before the start of the window before it, and the
\* planner returns no window after finitely many calls.
PlannerWindowsOrdered ==
  \A i \in 1..Len(windows) :
    /\ windows[i].start >= global_start
    /\ i > 1 => windows[i].end < windows[i - 1].start

C2_PlannerSequence ==
  /\ []PlannerWindowsOrdered
  /\ <>(pc = "after_windows" /\ next_window = NoWindow)

\* several windows, the last one clamped to global_start, then no window
C2_Witness ==
  /\ pc = "after_windows"
  /\ next_window = NoWindow
  /\ Len(windows) >= 3
  /\ windows[Len(windows)].start = global_start
  /\ windows[Len(windows)].end - windows[Len(windows)].start
       < Day(window_days)

\* C3: each call returns end = current_start - 1 day and
\* start = max(end - window_days, global_start), and no window exactly when
\* that start is after that end; from 2023-06-15 with floor 2023-06-01 and
\* 7 days the calls give [06-07, 06-14], [06-01, 06-06], then no window.
ExpectedEnd(cur_start) == cur_start - Day(1)

ExpectedStart(cur_start) ==
  Max(ExpectedEnd(cur_start) - Day(window_days), global_start)

C3_NextWindowValue ==
  /\ \A i \in 2..Len(windows) :
       /\ windows[i].end = ExpectedEnd(windows[i - 1].start)
       /\ windows[i].start = ExpectedStart(windows[i - 1].start)
       /\ windows[i].start <= windows[i].end
  /\ pc = "after_windows"
       => /\ next_window = NoWindow
          /\ ExpectedStart(current_start) > ExpectedEnd(current_start)
  /\ pc = "plan"
       => (calc_next_window(current_start, current_end, global_start,
                            window_days) = NoWindow
             <=> ExpectedStart(current_start) > ExpectedEnd(current_start))
  /\ \A i \in 1..Len(windows) :
       (global_start = Jun(1) /\ window_days = 7
          /\ windows[i].start = Jun(15))
         => /\ Len(windows) <= i + 2
            /\ Len(windows) >= i + 1
                 => windows[i + 1] = Window(Jun(7), Jun(14))
            /\ Len(windows) >= i + 2
                 => windows[i + 2] = Window(Jun(1), Jun(6))
            /\ Len(windows) = i + 2
                 => calc_next_window(current_start, current_end,
                                     global_start, window_days) = NoWindow

C3_Witness ==
  /\ global_start = Jun(1)
  /\ window_days = 7
  /\ Len(windows) = 3
  /\ windows[1].start = Jun(15)
  /\ windows[3] = Window(Jun(1), Jun(6))
  /\ pc = "after_windows"

(* ---------------- the harvester and the reconciler ---------------- *)
DataRows(file) == SelectSeq(file.rows, LAMBDA r : r # Header)

Occurrences(rows, x) == Cardinality({i \in 1..Len(rows) : rows[i] = x})

LedgerIdsUnique ==
  \A x \in Papers : Occurrences(meta_file.rows, x) <= 1

\* C1: over harvester runs on the same ledger no id comes to have more than
\* one ledger row: no step of a harvester run gives a ledger without
\* repeated ids a repeated id.
C1_RunsKeepIdsUnique ==
  [][(pc \in Running /\ LedgerIdsUnique) => LedgerIdsUnique']_vars

\* C4: no download is attempted for an id that is in downloaded_ids at that
\* moment, in pagination and in the failed-paper pass; the skip of such a
\* record leaves total_downloaded, downloaded_ids, the batch and the failure
\* file as they were.
SkipFrame ==
  /\ attempts' = attempts
  /\ pdf_dir' = pdf_dir
  /\ total_downloaded' = total_downloaded
  /\ downloaded_ids' = downloaded_ids
  /\ meta_batch' = meta_batch
  /\ retried_success' = retried_success
  /\ failed_file' = failed_file

C4_Step ==
  /\ attempts' = attempts + 1 => paper' \notin downloaded_ids
  /\ (pc = "paginate" /\ pc' = "batch" /\ paper' \in downloaded_ids)
       => SkipFrame
  /\ (pc = "rf_loop" /\ rf_i' = rf_i + 1 /\ paper' \in downloaded_ids)
       => SkipFrame

CleanPass ==
  /\ pc = "rc_done"
  /\ missing_ids # {}
  /\ SeqToSet(missing_meta) = missing_ids

C5_RoundTrip ==
  /\ [](CleanPass
         => \A x \in missing_ids : Occurrences(meta_file.rows, x) = 1)
  /\ [][(CleanPass /\ passes' = passes + 1)
          => (missing_ids' = {} /\ pc' = "rc_done"
              /\ meta_file' = meta_file /\ failed_file' = failed_file)]_vars

\* C6: a run that loads at least target_total ids issues no query, attempts
\* no download, processes no window, and ends with both files unchanged.
StartedAtTarget ==
  /\ pc \in Running \cup {"done", "interrupted"}
  /\ Cardinality(load_ids(run_start.meta)) >= target_total

C6_NoWorkAtTarget ==
  StartedAtTarget
    => /\ pc = "done"
       /\ queries = 0
       /\ attempts = 0
       /\ window_count = 0
       /\ meta_file = run_start.meta
       /\ failed_file = run_start.failed

C6_Witness ==
  /\ StartedAtTarget
  /\ pc = "done"
  /\ runs = 2
  /\ failed_file.exists

\* C7: the records held in memory and not yet flushed never number more
\* than batch_size, in pagination and in the failed-paper pass.
C7_BatchBounded == Len(meta_batch) <= batch_size

\* C8: a failed download in pagination appends one FailureEntry for the id,
\* leaves downloaded_ids, total_downloaded and the batch as they were, and
\* pagination goes on with the next record of the same window.
FailedInPagination ==
  /\ pc = "paginate"
  /\ attempts' = attempts + 1
  /\ ~success'

C8_Step ==
  /\ FailedInPagination
       => /\ DataRows(failed_file') = Append(DataRows(failed_file), paper')
          /\ Len(failed_file'.rows) >= Len(failed_file.rows)
          /\ SubSeq(failed_file'.rows, 1, Len(failed_file.rows))
               = failed_file.rows
          /\ paper' \notin downloaded_ids'
          /\ downloaded_ids' = downloaded_ids
          /\ total_downloaded' = total_downloaded
          /\ meta_batch' = meta_batch
          /\ meta_file' = meta_file
          /\ pc' = "batch"
          /\ UNCHANGED << window_count, current_start, current_end,
                          batch_count >>
  /\ (pc = "batch" /\ pc' # "interrupted")
       => /\ pc' = "paginate"
          /\ batch_count' = batch_count + 1
          /\ UNCHANGED << window_count, current_start, current_end >>

InRetry == pc \in {"retry_sleep", "retry_drain"}

C9_Step ==
  /\ InRetry
       => /\ meta_file' = meta_file
          /\ pc' \in {"retry_sleep", "retry_drain", "plan", "interrupted"}
          /\ pc' = "retry_drain" => backoff' - backoff = backoff_unit
          /\ queries' # queries
               => (pc = "retry_drain" /\ queries' = queries + 1)
  /\ (pc = "plan" /\ pc' # "interrupted")
       => \/ pc' = "after_windows" /\ next_window' = NoWindow
          \/ /\ pc' = "loop"
             /\ current_end' < current_start
             /\ global_start <= current_start'
             /\ current_start' <= current_end'

C9_WindowRetry ==
  /\ [](InRetry => /\ retry <= max_retries
                   /\ backoff = backoff_unit * retry)
  /\ [][C9_Step]_vars

\* the first window was abandoned after a flush, and the second window is
\* being paginated with that flush still in the ledger
C9_Witness ==
  /\ pc = "paginate"
  /\ window_count = 2
  /\ queries = 2 + max_retries
  /\ ~kbd
  /\ runs = 1
  /\ DataRows(meta_file) # << >>

\* C10: every append to the ledger or to the failure file, by the harvester
\* and by the reconciler, writes the header first exactly when the file did
\* not exist before, so a file with rows begins with its one header row.
HeaderFirst(file) ==
  file.rows # << >>
    => /\ Head(file.rows) = Header
       /\ Occurrences(file.rows, Header) = 1

Added(before, after) ==
  SubSeq(after.rows, Len(before.rows) + 1, Len(after.rows))

AppendWritesHeader(before, after) ==
  after.rows # before.rows
    => /\ Len(after.rows) > Len(before.rows)
       /\ SubSeq(after.rows, 1, Len(before.rows)) = before.rows
       /\ Head(Added(before, after)) = Header <=> ~before.exists
       /\ Occurrences(Tail(Added(before, after)), Header) = 0

C10_HeaderOnce ==
  /\ [](HeaderFirst(meta_file) /\ HeaderFirst(failed_file))
  /\ [][/\ AppendWritesHeader(meta_file, meta_file')
        /\ AppendWritesHeader(failed_file, failed_file')]_vars

\* C11: every step of the harvester and of the reconciler leaves the rows
\* the ledger and the failure file already had in place, as a prefix of the
\* rows after the step, removes neither file, and deletes no artifact.
IsPrefix(s, t) == Len(s) <= Len(t) /\ SubSeq(t, 1, Len(s)) = s

C11_Step ==
  /\ IsPrefix(meta_file.rows, meta_file'.rows)
  /\ IsPrefix(failed_file.rows, failed_file'.rows)
  /\ meta_file.exists => meta_file'.exists
  /\ failed_file.exists => failed_file'.exists
  /\ pdf_dir \subseteq pdf_dir'

C11_AppendOnly == [][C11_Step]_vars

\* a reconciler pass over a ledger and a failure file that had rows has
\* added a row to each
C11_Witness ==
  /\ pc = "rc_done"
  /\ run_start.meta.rows # << >>
  /\ run_start.failed.rows # << >>
  /\ Len(meta_file.rows) > Len(run_start.meta.rows)
  /\ Len(failed_file.rows) > Len(run_start.failed.rows)

\* C12: once a KeyboardInterrupt has been delivered to a run, at any point
\* of it, the run has stopped as interrupted by the user: it processes no
\* further record and queries no further window.
C12_InterruptStops == kbd => pc = "interrupted"

\* C13: in a run that started below the target, total_downloaded never
\* exceeds target_total, in pagination and after the failed-paper pass has
\* added its successes.
C13_TotalBounded ==
  (pc \in Running \cup {"done", "interrupted"}
     /\ run_start.total < target_total)
    => total_downloaded <= target_total

\* C14: when a query re-issued by the window-level retry loop runs to its
\* end, every record it returned has gone through the per-record pipeline:
\* unless the target is met, each record of the window is in downloaded_ids
\* or has had a FailureEntry recorded by that retry.
C14_Step ==
  (pc = "retry_drain" /\ drained')
    => \A x \in SeqToSet(Results) :
         \/ x \in downloaded_ids'
         \/ Occurrences(failed_file'.rows, x)
              > Occurrences(failed_file.rows, x)
         \/ TargetReached(total_downloaded')

C14_RetryRunsPipeline == [][C14_Step]_vars

\* C15: a step of the window-level retry loop raises total_downloaded only
\* by the ids it adds to downloaded_ids, and appends no ledger row for an id
\* of downloaded_ids that has a ledger row already.
C15_Step ==
  InRetry
    => /\ total_downloaded' - total_downloaded
            = Cardinality(downloaded_ids' \ downloaded_ids)
       /\ \A x \in downloaded_ids :
            Occurrences(meta_file'.rows, x) > Occurrences(meta_file.rows, x)
              => Occurrences(meta_file.rows, x) = 0

C15_RetryCountsOnce == [][C15_Step]_vars

\* every re-issued query of the retry loop has been made, the last one ran
\* to its end, and the run had counted a record before the exception, with
\* one id in the ledger and one still in the batch
C15_Witness ==
  /\ pc = "retry_sleep"
  /\ retry = max_retries
  /\ drained
  /\ total_downloaded > run_start.total
  /\ meta_batch # << >>
  /\ \E x \in downloaded_ids : Occurrences(meta_file.rows, x) = 1

\* C16: in every state of a harvester run (the writes of this specification
\* all succeed) the ids downloaded in this run that have no ledger row number
\* at most batch_size.
RunIds == downloaded_ids \ load_ids(run_start.meta)

Unflushed == {x \in RunIds : Occurrences(meta_file.rows, x) = 0}

C16_LossBounded ==
  pc \in Running \cup {"done", "interrupted"}
    => Cardinality(Unflushed) <= batch_size

\* C17: every failed attempt to obtain one record appends exactly one
\* FailureEntry for its id: a failed download in pagination, a failed lookup
\* or download in the failed-paper pass, a failed lookup in the reconciler.
FailureRecorded(paper_id) ==
  /\ DataRows(failed_file') = Append(DataRows(failed_file), paper_id)
  /\ IsPrefix(failed_file.rows, failed_file'.rows)

FailedInRetryPass ==
  /\ pc = "rf_loop"
  /\ queries' = queries + 1
  /\ downloaded_ids' = downloaded_ids

FailedInReconciler ==
  /\ pc = "rc_loop"
  /\ rc_todo' # rc_todo
  /\ missing_meta' = missing_meta

C17_Step ==
  /\ FailedInPagination => FailureRecorded(paper')
  /\ FailedInRetryPass => FailureRecorded(paper')
  /\ FailedInReconciler
       => \E x \in rc_todo \ rc_todo' : FailureRecorded(x)

C17_EveryFailureRecorded == [][C17_Step]_vars

\* C18: the windows passed to download_window satisfy
\* global_start <= start <= end, are pairwise disjoint at day granularity,
\* and, when the planner has run out of windows, together hold every day
\* from the day of global_start to the day of the initial end.
\* main, line 256: the initial window is passed on only if it is not empty
Queried ==
  IF windows # << >> /\ windows[1].start > windows[1].end
    THEN Tail(windows)
    ELSE windows

DaysOf(w) == DayOf(w.start) .. DayOf(w.end)

LedgerIds == SeqToSet(DataRows(meta_file))

C19_RowHasArtifact == LedgerIds \subseteq pdf_dir

\* a ledger the harvester created has got a further row from a reconciler
\* pass
C19_Witness ==
  /\ pc = "rc_done"
  /\ runs >= 1
  /\ run_start.meta.rows # << >>
  /\ Head(run_start.meta.rows) = Header
  /\ DataRows(run_start.meta) # << >>
  /\ SeqToSet(missing_meta) \ SeqToSet(DataRows(run_start.meta)) # {}
  /\ SeqToSet(missing_meta) \subseteq LedgerIds

\* C20: the failed-id list is the data rows of the failure file, in file
\* order with duplicates kept; the failed-paper pass visits it in that order,
\* and every occurrence it visits is retried as an attempt of its own.
LoadsFailedIds ==
  /\ pc = "after_windows"
  /\ pc' \in {"rf_loop", "done"}
  /\ ~skip_retry
  /\ ~TargetReached(total_downloaded)

VisitsFailedId == pc = "rf_loop" /\ pc' = "rf_loop" /\ rf_i' # rf_i

C20_LoadStep == LoadsFailedIds => failed_ids' = DataRows(failed_file)

C20_VisitStep ==
  VisitsFailedId
    => /\ rf_i' = rf_i + 1
       /\ failed_ids' = failed_ids
       /\ paper' = failed_ids[rf_i]
       /\ queries' = queries + 1

C20_FailedListRetried == [][C20_LoadStep /\ C20_VisitStep]_vars

\* C21: a flush of the batch whose write fails does not raise: pagination
\* goes on with the next record, downloaded_ids and total_downloaded keep
\* the ids of the unwritten batch, and a later flush either fails as well or
\* appends its batch to the ledger.
BatchFlushStep ==
  /\ pc = "batch"
  /\ BatchFull(batch_count + 1)
  /\ meta_batch # << >>
  /\ kbd' = kbd

FinalFlushStep == pc = "paginate" /\ pc' = "plan" /\ meta_batch # << >>

NotWritten == meta_file'.rows = meta_file.rows

Written ==
  meta_file'.rows
    = meta_file.rows \o HeaderRows(meta_file.exists) \o meta_batch

KeepsBatchIds ==
  /\ downloaded_ids' = downloaded_ids
  /\ total_downloaded' = total_downloaded
  /\ SeqToSet(meta_batch) \subseteq downloaded_ids'
  /\ UNCHANGED << current_start, current_end, window_count >>

C21_Step ==
  /\ BatchFlushStep
       => /\ pc' = "paginate"
          /\ batch_count' = batch_count + 1
          /\ KeepsBatchIds
          /\ NotWritten \/ Written
  /\ FinalFlushStep
       => /\ KeepsBatchIds
          /\ NotWritten \/ Written

AtCountedPoint ==
  pc \in {"loop", "paginate", "batch", "retry_sleep", "retry_drain",
          "plan", "after_windows", "done"}

C22_TotalIsIdCount ==
  AtCountedPoint => total_downloaded = Cardinality(downloaded_ids)

\* the final summary of a run that downloaded in pagination and in the
\* failed-paper pass
C22_Witness ==
  /\ pc = "done"
  /\ retried_success >= 1
  /\ total_downloaded - run_start.total > retried_success

\* C23: at the final summary of a run in which no exception escaped
\* pagination and no write failed, the ids of the ledger's rows are the ids
\* of downloaded_ids, and total_downloaded is the number of distinct ledger
\* ids, also when a window stopped early at the target.
C23_LedgerMatchesRun ==
  pc = "done"
    => /\ LedgerIds = downloaded_ids
       /\ total_downloaded = Cardinality(LedgerIds)

====
